---- MODULE Spec2Model ----
(***************************************************************************)
(* The CDash reporter of lib/spack/spack/reporters/cdash.py: build_report  *)
(* segments the captured output of every built package by build phase,     *)
(* computes each encountered phase's log, status and events, writes one    *)
(* report file per phase and uploads it.                                   *)
(*                                                                         *)
(* A Python string is a sequence of tokens.  A token is one character      *)
(* ("&", "<", ">", "'", "\n") or a run of characters that no operation of  *)
(* the reporter looks into ("error:", "configure", ...).                   *)
(***************************************************************************)
EXTENDS Integers, Sequences, FiniteSets, TLC

\* Bounds of the input: packages per report, captured lines per report.
MaxUnits == 2
MaxLines == 3
\* Bound of the two-phase inputs: plain lines after each marker.
MaxPlain == 2

\* ------------------------------------------------------------------------
\* Tokens and strings
\* ------------------------------------------------------------------------

\* The literal "Executing phase: '" of lines 92 and 119; it ends in a quote.
EP == "Executing phase: '"
\* The same literal without its final quote.
EPhead == "Executing phase: "
Quote == "'"
NL == "\n"
None == "None"

\* xml.sax.saxutils.escape on one character.
xml_escape_char(c) ==
    CASE c = "&" -> <<"&", "amp;">>
      [] c = "<" -> <<"&", "lt;">>
      [] c = ">" -> <<"&", "gt;">>
      [] OTHER   -> <<c>>

RECURSIVE xml_escape(_)
\* xml.sax.saxutils.escape(line): "&", "<" and ">" become entities.
xml_escape(s) ==
    IF s = <<>> THEN <<>> ELSE xml_escape_char(Head(s)) \o xml_escape(Tail(s))

RECURSIVE join(_)
\* '\n'.join(strings)
join(strings) ==
    IF strings = <<>> THEN <<>>
    ELSE IF Len(strings) = 1 THEN strings[1]
    ELSE strings[1] \o <<NL>> \o join(Tail(strings))

RECURSIVE splitlines_from(_, _)
\* The lines of text, cur being the line read so far.
splitlines_from(text, cur) ==
    IF text = <<>> THEN (IF cur = <<>> THEN <<>> ELSE <<cur>>)
    ELSE IF Head(text) = NL THEN <<cur>> \o splitlines_from(Tail(text), <<>>)
    ELSE splitlines_from(Tail(text), Append(cur, Head(text)))

\* package['stdout'].splitlines()
splitlines(text) == splitlines_from(text, <<>>)

\* phase.capitalize() on the coarse phase names.
capitalize(phase) ==
    CASE phase = "configure" -> "Configure"
      [] phase = "build"     -> "Build"
      [] phase = "update"    -> "Update"
      [] OTHER               -> phase

\* ------------------------------------------------------------------------
\* Phase mapping
\* ------------------------------------------------------------------------

map_phases_to_cdash ==
    [autoreconf |-> "configure",
     cmake      |-> "configure",
     configure  |-> "configure",
     edit       |-> "configure",
     build      |-> "build",
     install    |-> "build"]

cdash_phases == {map_phases_to_cdash[f] : f \in DOMAIN map_phases_to_cdash}

\* current_phase in map_phases_to_cdash, for a string of tokens.
in_map(name) == Len(name) = 1 /\ name[1] \in DOMAIN map_phases_to_cdash

\* ------------------------------------------------------------------------
\* Phase markers
\* ------------------------------------------------------------------------

\* Only the marker of 'configure' is looked for.
phase_found_configure_only(line) ==
    \E p \in 1..(Len(line) - 1) : line[p] = EP /\ line[p + 1] = "configure"

\* line.find("Executing phase: '") != -1
phase_found(line) == \E p \in 1..Len(line) : line[p] = EP

\* The positions of line that end in a quote character.
quote_positions(line) == {p \in 1..Len(line) : line[p] \in {Quote, EP}}

first_marker(line) ==
    CHOOSE p \in 1..Len(line) :
        line[p] = EP /\ \A q \in 1..(p - 1) : line[q] # EP

last_quote(line) ==
    CHOOSE p \in quote_positions(line) : \A q \in quote_positions(line) : q <= p

\* phase_regexp.search(line) is not None: a marker literal is followed by a
\* quote somewhere later in the line.
phase_match(line) ==
    \E a \in 1..Len(line) :
        line[a] = EP /\ \E q \in quote_positions(line) : q > a

\* match.group(1): greedy, everything up to the last quote of the line.
match_group(line) ==
    LET a == first_marker(line)
        b == last_quote(line)
        inner == SubSeq(line, a + 1, b - 1)
    IN  IF line[b] = EP THEN Append(inner, EPhead) ELSE inner

\* A header that does not name the phase.
header_line_without_phase(phase, name) == <<"Output for ", name, ":">>

\* text_type("{0} output for {1}:".format(cdash_phase, package['name']))
header_line(phase, name) == <<phase, " output for ", name, ":">>

\* ------------------------------------------------------------------------
\* Event extractor (spack.util.log_parse.parse_log_events)
\* ------------------------------------------------------------------------

\* Lines of context kept on each side of an event.
context == 1

\* The extractor's verdict on one log line.
is_event(line, kind) == \E p \in 1..Len(line) : line[p] = kind

\* The event of log line n: its text is the line, its context the lines
\* around it, its source file and line number both found or both (None,).
log_event(loglines, n) ==
    LET lo == IF n - context < 1 THEN 1 ELSE n - context
        hi == IF n + context > Len(loglines) THEN Len(loglines) ELSE n + context
        located == loglines[n] # <<>> /\ loglines[n][1] = "f.c:3:"
    IN  [line_no        |-> n,
         text           |-> loglines[n],
         pre_context    |-> SubSeq(loglines, lo, n - 1),
         post_context   |-> SubSeq(loglines, n + 1, hi),
         source_file    |-> IF located THEN <<"f.c">> ELSE <<None>>,
         source_line_no |-> IF located THEN <<"3">> ELSE <<None>>]

RECURSIVE events_from(_, _, _)
events_from(loglines, n, kind) ==
    IF n > Len(loglines) THEN <<>>
    ELSE (IF is_event(loglines[n], kind) THEN <<log_event(loglines, n)>> ELSE <<>>)
         \o events_from(loglines, n + 1, kind)

\* errors, warnings = parse_log_events(loglines)
parse_log_events(loglines) ==
    [errors   |-> events_from(loglines, 1, "error:"),
     warnings |-> events_from(loglines, 1, "warning:")]

\* ------------------------------------------------------------------------
\* clean_log_event
\* ------------------------------------------------------------------------

\* The line number of an event without a source file is left as it came.
clean_log_event_keeps_line_no(event) ==
    LET escaped == [event EXCEPT
                      !.text = xml_escape(event.text),
                      !.pre_context = xml_escape(join(event.pre_context)),
                      !.post_context = xml_escape(join(event.post_context))]
    IN  IF event.source_file[1] = None
        THEN [escaped EXCEPT !.source_file = <<>>]
        ELSE [escaped EXCEPT !.source_file = xml_escape(event.source_file)]

\* Lines 160-175: the text fields are escaped and the contexts joined; the
\* source file and line number are emptied when there is no source file.
clean_log_event(event) ==
    LET escaped == [event EXCEPT
                      !.text = xml_escape(event.text),
                      !.pre_context = xml_escape(join(event.pre_context)),
                      !.post_context = xml_escape(join(event.post_context))]
    IN  IF event.source_file[1] = None
        THEN [escaped EXCEPT !.source_file = <<>>, !.source_line_no = <<>>]
        ELSE [escaped EXCEPT !.source_file = xml_escape(event.source_file)]

RECURSIVE clean_events(_)
\* for error in errors: ...append(clean_log_event(error))
clean_events(events) ==
    IF events = <<>> THEN <<>>
    ELSE <<clean_log_event(Head(events))>> \o clean_events(Tail(events))

\* ------------------------------------------------------------------------
\* Inputs
\* ------------------------------------------------------------------------

marker_line(name) == <<EP, name, Quote>>

\* The captured lines a package's output is made of.
LineSet ==
    {marker_line("configure"), marker_line("install"), marker_line("package"),
     <<EP, "cmake">>,
     <<"error:", "<">>,
     <<"f.c:3:", "warning:", "&">>}

RECURSIVE text_of(_)
\* The captured text whose lines are ls, each ended by a newline.
text_of(ls) == IF ls = <<>> THEN <<>> ELSE Head(ls) \o <<NL>> \o text_of(Tail(ls))

package_name(idx) == "p" \o ToString(idx)

\* The packages made of the captured lines ls: package n has a stdout when
\* has_stdout[n], holding the lines after position cuts[n - 1] up to cuts[n].
packages_of(ls, cuts, has_stdout) ==
    [n \in 1..Len(cuts) |->
        IF has_stdout[n]
        THEN [name   |-> package_name(n),
              stdout |-> text_of(SubSeq(ls, (IF n = 1 THEN 0 ELSE cuts[n - 1]) + 1,
                                        cuts[n]))]
        ELSE [name |-> package_name(n)]]

\* Every line belongs to one package, in order, and to one with a stdout.
well_cut(ls, cuts, has_stdout) ==
    /\ Len(cuts) = 0 => Len(ls) = 0
    /\ Len(cuts) > 0 => cuts[Len(cuts)] = Len(ls)
    /\ \A n \in 1..Len(cuts) :
          /\ n > 1 => cuts[n - 1] <= cuts[n]
          /\ ~has_stdout[n] => cuts[n] = (IF n = 1 THEN 0 ELSE cuts[n - 1])

\* report_data['specs'] for a sequence of packages: two specs, the first
\* with the first half of the packages.
specs_of(ps) ==
    <<[packages |-> SubSeq(ps, 1, Len(ps) \div 2)],
      [packages |-> SubSeq(ps, (Len(ps) \div 2) + 1, Len(ps))]>>

\* The lines that hold no phase marker.
PlainSet == {l \in LineSet : ~(phase_found(l) /\ phase_match(l))}

PlainSeqs(n) == UNION {[1..m -> PlainSet] : m \in 0..n}

\* The output of one package: a 'configure' marker, plain lines, an
\* 'install' marker, plain lines.
two_phase_lines(first, second) ==
    <<marker_line("configure")>> \o first \o <<marker_line("install")>> \o second

\* The upload URLs of the reporter's arguments; the empty one disables upload.
UploadUrls == {<<>>, <<"https://cdash/", "submit.php", "?project=Spack">>}

\* ------------------------------------------------------------------------
\* The reporter
\* ------------------------------------------------------------------------

\* The fields __init__ sets from the arguments and the host.
self ==
    [template_dir    |-> "reports/cdash",
     install_command |-> "pkg",
     buildname       |-> "pkg",
     site            |-> "host",
     osname          |-> "Linux",
     starttime       |-> 1,
     buildstamp      |-> "20181105-0700-Experimental"]

VARIABLES
    pc,                 \* the reporter's position
    cdash_upload_url,   \* self.cdash_upload_url
    report_data,        \* the report model
    phases_encountered,
    current_phase,
    cdash_phase,
    unit,               \* number of packages whose loop body was entered
    lines,              \* the lines of the package being read
    i,                  \* number of lines of it that were read
    k,                  \* position in phases_encountered
    dir_exists,         \* the report directory exists
    files,              \* the report directory: file name -> sections written
    open_file,          \* the file open for writing, "" if none
    upload_calls,       \* the files self.upload was called with, in order
    puts,               \* the PUT requests issued, in order
    printed,            \* the summary links printed, in order
    response,           \* the body of the last response read, None if none
    error               \* the exception that left build_report, "" if none

vars == <<pc, cdash_upload_url, report_data, phases_encountered, current_phase,
          cdash_phase, unit, lines, i, k, dir_exists, files, open_file,
          upload_calls, puts, printed, response, error>>

RECURSIVE all_packages(_)
\* The packages in the order of "for spec ...: for package in spec['packages']".
all_packages(specs) ==
    IF specs = <<>> THEN <<>> ELSE Head(specs).packages \o all_packages(Tail(specs))

\* The reporter after __init__, before it is asked for a report.
Constructed ==
    /\ pc = "idle"
    /\ cdash_upload_url \in UploadUrls
    /\ phases_encountered = <<>>
    /\ current_phase = <<>>
    /\ cdash_phase = ""
    /\ unit = 0
    /\ lines = <<>>
    /\ i = 0
    /\ k = 0
    /\ dir_exists = FALSE
    /\ files = <<>>
    /\ open_file = ""
    /\ upload_calls = <<>>
    /\ puts = <<>>
    /\ printed = <<>>
    /\ response = None
    /\ error = ""

\* The report data of at most MaxUnits packages with at most MaxLines
\* captured lines together.
Init ==
    /\ Constructed
    /\ \E u \in 0..MaxUnits, t \in 0..MaxLines :
          \E ls \in [1..t -> LineSet], cuts \in [1..u -> 0..t],
             has_stdout \in [1..u -> BOOLEAN] :
                /\ well_cut(ls, cuts, has_stdout)
                /\ report_data =
                       [specs |-> specs_of(packages_of(ls, cuts, has_stdout))]

\* The report data of one package with a 'configure' and an 'install' phase
\* of at most MaxPlain plain lines each.
InitTwoPhase ==
    /\ Constructed
    /\ \E first \in PlainSeqs(MaxPlain), second \in PlainSeqs(MaxPlain) :
          report_data =
              [specs |-> <<[packages |->
                              <<[name   |-> package_name(1),
                                 stdout |-> text_of(two_phase_lines(first,
                                                                    second))]>>]>>]

\* initialize_report(filename, report_data): the identity fields.
initialize_report(data) ==
    [buildname       |-> self.buildname,
     buildstamp      |-> self.buildstamp,
     install_command |-> self.install_command,
     osname          |-> self.osname,
     site            |-> self.site] @@ data

\* A record that starts as failed.
new_phase_record_failed ==
    [loglines  |-> <<>>,
     status    |-> 1,
     starttime |-> self.starttime,
     endtime   |-> self.starttime]

\* report_data[phase] = {...} of lines 82-86.
new_phase_record ==
    [loglines  |-> <<>>,
     status    |-> 0,
     starttime |-> self.starttime,
     endtime   |-> self.starttime]

\* Lines 79-93: the report is initialized, every phase of cdash_phases gets
\* its record, nothing is encountered and no phase is active.
BeginReport ==
    /\ pc = "idle"
    /\ dir_exists' = TRUE
    /\ report_data' = [p \in cdash_phases |-> new_phase_record]
                         @@ initialize_report(report_data)
    /\ phases_encountered' = <<>>
    /\ cdash_phase' = ""
    /\ pc' = "segment"
    /\ UNCHANGED <<cdash_upload_url, current_phase, unit, lines, i, k, files,
                   open_file, upload_calls, puts, printed, response, error>>

\* The next package is taken and its output is read without the test of
\* line 105: package['stdout'] raises for a package that has none.
StartPackageUnchecked ==
    /\ pc = "segment"
    /\ i = Len(lines)
    /\ unit < Len(all_packages(report_data.specs))
    /\ LET package == all_packages(report_data.specs)[unit + 1]
       IN  IF "stdout" \in DOMAIN package
           THEN /\ lines' = splitlines(package.stdout)
                /\ current_phase' = <<>>
                /\ i' = 0
                /\ UNCHANGED <<pc, error>>
           ELSE /\ pc' = "raised"
                /\ error' = "KeyError"
                /\ UNCHANGED <<lines, current_phase, i>>
    /\ unit' = unit + 1
    /\ UNCHANGED <<cdash_upload_url, report_data, phases_encountered,
                   cdash_phase, k, dir_exists, files, open_file, upload_calls,
                   puts, printed, response>>

\* Lines 103-113: the next package is taken; one without stdout is skipped.
StartPackage ==
    /\ pc = "segment"
    /\ i = Len(lines)
    /\ unit < Len(all_packages(report_data.specs))
    /\ LET package == all_packages(report_data.specs)[unit + 1]
       IN  IF "stdout" \in DOMAIN package
           THEN /\ lines' = splitlines(package.stdout)
                /\ current_phase' = <<>>
                /\ i' = 0
           ELSE UNCHANGED <<lines, current_phase, i>>
    /\ unit' = unit + 1
    /\ UNCHANGED <<pc, cdash_upload_url, report_data, phases_encountered,
                   cdash_phase, k, dir_exists, files, open_file, upload_calls,
                   puts, printed, response, error>>

\* A buffer that grows at the front.
append_logline_front(data, phase, line) ==
    [data EXCEPT ![phase] = [@ EXCEPT !.loglines = <<line>> \o @]]

\* report_data[phase]['loglines'].append(line)
append_logline(data, phase, line) ==
    [data EXCEPT ![phase] = [@ EXCEPT !.loglines = Append(@, line)]]

\* Every marker adds its phase.
encounter_always(encountered, phase) == Append(encountered, phase)

\* if cdash_phase not in phases_encountered: phases_encountered.append(...)
encounter(encountered, phase) ==
    IF \E n \in 1..Len(encountered) : encountered[n] = phase
    THEN encountered
    ELSE Append(encountered, phase)

\* Lines 114-144: one line of the package being read.
SegmentLine ==
    /\ pc = "segment"
    /\ i < Len(lines)
    /\ LET line == lines[i + 1]
           package == all_packages(report_data.specs)[unit]
           match == phase_found(line) /\ phase_match(line)
       IN  IF match
           THEN IF ~in_map(match_group(line))
                THEN /\ current_phase' = <<>>
                     /\ UNCHANGED <<cdash_phase, phases_encountered,
                                    report_data>>
                ELSE LET mapped == map_phases_to_cdash[match_group(line)[1]]
                     IN  /\ current_phase' = match_group(line)
                         /\ cdash_phase' = mapped
                         /\ phases_encountered' =
                                encounter(phases_encountered, mapped)
                         /\ report_data' =
                                append_logline(report_data, mapped,
                                               header_line(mapped, package.name))
           ELSE /\ IF cdash_phase # ""
                   THEN report_data' =
                            append_logline(report_data, cdash_phase,
                                           xml_escape(line))
                   ELSE UNCHANGED report_data
                /\ UNCHANGED <<current_phase, cdash_phase, phases_encountered>>
    /\ i' = i + 1
    /\ UNCHANGED <<pc, cdash_upload_url, unit, lines, k, dir_exists, files,
                   open_file, upload_calls, puts, printed, response, error>>

\* "update" is put in front of the encountered phases.
with_update_first(encountered) == <<"update">> \o encountered

\* phases_encountered.append('update')
with_update(encountered) == Append(encountered, "update")

\* Line 147: every package was read; "update" joins the phases to process.
FinishSegmentation ==
    /\ pc = "segment"
    /\ i = Len(lines)
    /\ unit = Len(all_packages(report_data.specs))
    /\ phases_encountered' = with_update(phases_encountered)
    /\ k' = 1
    /\ pc' = "process"
    /\ UNCHANGED <<cdash_upload_url, report_data, current_phase, cdash_phase,
                   unit, lines, i, dir_exists, files, open_file, upload_calls,
                   puts, printed, response, error>>

\* A status that reacts to warnings as well.
phase_status_any_event(phase, status, errors, warnings) ==
    IF phase = "configure" /\ Len(errors) + Len(warnings) > 0 THEN 1 ELSE status

\* if phase == 'configure' and nerrors > 0: status = 1
phase_status(phase, status, errors, warnings) ==
    IF phase = "configure" /\ Len(errors) > 0 THEN 1 ELSE status

\* Lines 149-183 on the record of one phase.
processed_record(phase, record) ==
    LET events == parse_log_events(record.loglines)
        base == [log |-> join(record.loglines)]
                  @@ [record EXCEPT
                        !.starttime = self.starttime,
                        !.status = phase_status(phase, record.status,
                                                events.errors, events.warnings)]
    IN  IF phase = "build"
        THEN [errors   |-> clean_events(events.errors),
              warnings |-> clean_events(events.warnings)] @@ base
        ELSE base

\* report_name = phase.capitalize() + ".xml"
report_name(phase) == capitalize(phase) \o ".xml"

\* Lines 148-189 for the phase at position k: its log, status and events are
\* computed.  A phase without a record in report_data raises KeyError at
\* line 149.
ProcessPhase ==
    /\ pc = "process"
    /\ k <= Len(phases_encountered)
    /\ LET phase == phases_encountered[k]
       IN  IF phase \in DOMAIN report_data
           THEN /\ report_data' =
                       [report_data EXCEPT
                          ![phase] = processed_record(phase, report_data[phase])]
                /\ pc' = "open"
                /\ UNCHANGED error
           ELSE /\ pc' = "raised"
                /\ error' = "KeyError"
                /\ UNCHANGED report_data
    /\ UNCHANGED <<cdash_upload_url, phases_encountered, current_phase,
                   cdash_phase, unit, lines, i, k, dir_exists, files, open_file,
                   upload_calls, puts, printed, response>>

\* Line 190: codecs.open(phase_report, 'w') creates or truncates the file,
\* or fails and leaves the directory as it was.
OpenReport ==
    /\ pc = "open"
    /\ \E ok \in BOOLEAN :
          IF ok
          THEN /\ files' = (report_name(phases_encountered[k]) :> <<>>) @@ files
               /\ open_file' = report_name(phases_encountered[k])
               /\ pc' = "site"
               /\ UNCHANGED error
          ELSE /\ pc' = "raised"
               /\ error' = "IOError"
               /\ UNCHANGED <<files, open_file>>
    /\ UNCHANGED <<cdash_upload_url, report_data, phases_encountered,
                   current_phase, cdash_phase, unit, lines, i, k, dir_exists,
                   upload_calls, puts, printed, response>>

\* t.render(report_data) for the template Site.xml: the identity fields.
render_site(data) ==
    [template        |-> "Site.xml",
     buildname       |-> data.buildname,
     buildstamp      |-> data.buildstamp,
     site            |-> data.site,
     osname          |-> data.osname,
     install_command |-> data.install_command]

\* t.render(report_data) for the template of one phase: the phase's record.
render_phase(data, phase) ==
    [template |-> report_name(phase), phase |-> data[phase]]

\* Lines 191-194: the site section is rendered and written, or resolving or
\* rendering the template raises and the with statement closes the file.
WriteSite ==
    /\ pc = "site"
    /\ \E ok \in BOOLEAN :
          IF ok
          THEN /\ files' = [files EXCEPT
                              ![open_file] = Append(@, render_site(report_data))]
               /\ pc' = "body"
               /\ UNCHANGED <<open_file, error>>
          ELSE /\ open_file' = ""
               /\ pc' = "raised"
               /\ error' = "TemplateError"
               /\ UNCHANGED files
    /\ UNCHANGED <<cdash_upload_url, report_data, phases_encountered,
                   current_phase, cdash_phase, unit, lines, i, k, dir_exists,
                   upload_calls, puts, printed, response>>

\* The body is written and the file is left open: the upload of line 200
\* moved into the with statement.
WriteBodyInsideWith ==
    /\ pc = "body"
    /\ \E ok \in BOOLEAN :
          IF ok
          THEN /\ files' = [files EXCEPT
                              ![open_file] =
                                  Append(@, render_phase(report_data,
                                                         phases_encountered[k]))]
               /\ pc' = "upload"
               /\ UNCHANGED <<open_file, error>>
          ELSE /\ pc' = "raised"
               /\ error' = "TemplateError"
               /\ open_file' = ""
               /\ UNCHANGED files
    /\ UNCHANGED <<cdash_upload_url, report_data, phases_encountered,
                   current_phase, cdash_phase, unit, lines, i, k, dir_exists,
                   upload_calls, puts, printed, response>>

\* Lines 196-198 and the end of the with statement: the phase's section is
\* rendered and written and the file is closed, or resolving or rendering
\* the template raises and the with statement closes the file.
WriteBody ==
    /\ pc = "body"
    /\ \E ok \in BOOLEAN :
          IF ok
          THEN /\ files' = [files EXCEPT
                              ![open_file] =
                                  Append(@, render_phase(report_data,
                                                         phases_encountered[k]))]
               /\ pc' = "upload"
               /\ UNCHANGED error
          ELSE /\ pc' = "raised"
               /\ error' = "TemplateError"
               /\ UNCHANGED files
    /\ open_file' = ""
    /\ UNCHANGED <<cdash_upload_url, report_data, phases_encountered,
                   current_phase, cdash_phase, unit, lines, i, k, dir_exists,
                   upload_calls, puts, printed, response>>

\* ------------------------------------------------------------------------
\* upload
\* ------------------------------------------------------------------------

\* The response bodies of the dashboard.
Responses ==
    {<<"<buildId>", "42", "</buildId>">>,
     <<"<buildId>", "x", "</buildId>">>,
     <<"OK">>}

\* The tokens that [0-9]+ matches.
Numbers == {"42"}

\* Any text between the tags is taken for a build id.
buildId_matches_any_text(body) ==
    {p \in 1..(Len(body) - 2) :
        body[p] = "<buildId>" /\ body[p + 2] = "</buildId>"}

\* The positions where buildId_regexp matches body.
buildId_matches(body) ==
    {p \in 1..(Len(body) - 2) :
        /\ body[p] = "<buildId>"
        /\ body[p + 1] \in Numbers
        /\ body[p + 2] = "</buildId>"}

\* match.group(1) of buildId_regexp.search(body), None without a match.
buildId_of(body) ==
    IF buildId_matches(body) = {} THEN None
    ELSE body[(CHOOSE p \in buildId_matches(body) :
                  \A q \in buildId_matches(body) : p <= q) + 1]

\* Lines 259-261: the upload URL up to "submit.php", then the summary page.
\* find returns -1 when "submit.php" is absent and the slice drops the end.
build_url(url, buildId) ==
    LET found == {p \in 1..Len(url) : url[p] = "submit.php"}
        cut == IF found = {} THEN Len(url) - 1
               ELSE (CHOOSE p \in found : \A q \in found : p <= q) - 1
    IN  SubSeq(url, 1, cut) \o <<"buildSummary.php?buildid=", buildId>>

\* Lines 237-250: the PUT request for a file.
put_request(url, filename, content) ==
    [method  |-> "PUT",
     url     |-> url,
     params  |-> [build |-> self.buildname,
                  site  |-> self.site,
                  stamp |-> self.buildstamp,
                  MD5   |-> <<"md5", content>>],
     headers |-> [ContentType |-> "text/xml", ContentLength |-> Len(content)],
     data    |-> content]

\* The position after the upload of the phase at position n: the next phase
\* of the loop of line 148, or the end of build_report.
after_upload(n) == IF n < Len(phases_encountered) THEN "process" ELSE "done"

\* Every request is sent twice.
opener_open_again(request) == <<request, request>>

\* Line 252: opener.open(request) sends the request, once.
opener_open(request) == <<request>>

\* The destination is never taken for missing.
no_upload_url_never(url) == FALSE

\* Line 227: "not self.cdash_upload_url".
no_upload_url(url) == url = <<>>

\* The file self.upload is called with at a position: line 200 passes the
\* phase's report, line 215 the concretization report.
uploaded_file(position) ==
    IF position = "c_upload" THEN "Update.xml"
    ELSE report_name(phases_encountered[k])

\* Where the caller of self.upload goes on when the call returns.
upload_returns(position) ==
    IF position = "c_upload" THEN "c_done" ELSE after_upload(k)

\* Where the caller of self.upload ends when the call raises.
upload_raises(position) ==
    IF position = "c_upload" THEN "c_raised" ELSE "raised"

\* Lines 200 and 215 with lines 226-262: self.upload(file), then what follows
\* the call.  Without an upload URL the call returns at once.  Otherwise the
\* file is checksummed and PUT; the request fails, or it is answered and a
\* summary link is printed when the answer holds a build id.
Upload ==
    /\ pc \in {"upload", "c_upload"}
    /\ LET filename == uploaded_file(pc)
       IN  /\ upload_calls' = Append(upload_calls, filename)
           /\ IF no_upload_url(cdash_upload_url)
              THEN /\ pc' = upload_returns(pc)
                   /\ UNCHANGED <<puts, printed, response, error>>
              ELSE /\ puts' = puts \o opener_open(put_request(cdash_upload_url,
                                                               filename,
                                                               files[filename]))
                   /\ \/ /\ pc' = upload_raises(pc)
                         /\ error' = "URLError"
                         /\ UNCHANGED <<printed, response>>
                      \/ \E body \in Responses :
                            /\ response' = body
                            /\ printed' =
                                   IF buildId_of(body) # None
                                   THEN Append(printed,
                                               build_url(cdash_upload_url,
                                                         buildId_of(body)))
                                   ELSE printed
                            /\ pc' = upload_returns(pc)
                            /\ UNCHANGED error
    /\ k' = IF pc = "upload" /\ pc' # "raised" THEN k + 1 ELSE k
    /\ UNCHANGED <<cdash_upload_url, report_data, phases_encountered,
                   current_phase, cdash_phase, unit, lines, i, dir_exists, files,
                   open_file>>

\* ------------------------------------------------------------------------
\* concretization_report
\* ------------------------------------------------------------------------

\* The messages of a failed concretization.
Messages == {<<"no", "version", "satisfies", "<", "2">>, <<"conflict">>}

\* The report data lacks the message.
concretization_data_without_msg(msg) ==
    initialize_report([starttime |-> self.starttime,
                       endtime   |-> self.starttime])

\* Lines 203-207: the fresh report data of a concretization report.
concretization_data(msg) ==
    initialize_report([starttime |-> self.starttime,
                       endtime   |-> self.starttime,
                       msg       |-> msg])

\* t.render(report_data) of line 214.
render_update(data) == [template |-> "Update.xml", data |-> data]

\* Lines 203-211: the report data is built and initialized, which makes the
\* report directory, and the template is resolved, or resolving it raises
\* before any file is opened.
BeginConcretization ==
    /\ pc = "idle"
    /\ dir_exists' = TRUE
    /\ \E msg \in Messages : report_data' = concretization_data(msg)
    /\ \E ok \in BOOLEAN :
          IF ok
          THEN pc' = "c_write" /\ UNCHANGED error
          ELSE pc' = "c_raised" /\ error' = "TemplateError"
    /\ UNCHANGED <<cdash_upload_url, phases_encountered, current_phase,
                   cdash_phase, unit, lines, i, k, files, open_file,
                   upload_calls, puts, printed, response>>

\* Lines 212-214: Update.xml is opened, which creates it empty, the template
\* is rendered into it and the with statement closes it; or opening raises
\* and there is no file; or rendering raises and the file stays empty.
WriteUpdate ==
    /\ pc = "c_write"
    /\ \E outcome \in {"written", "not opened", "not rendered"} :
          /\ files' = IF outcome = "written"
                      THEN ("Update.xml" :> <<render_update(report_data)>>) @@ files
                      ELSE IF outcome = "not rendered"
                      THEN ("Update.xml" :> <<>>) @@ files
                      ELSE files
          /\ pc' = IF outcome = "written" THEN "c_upload" ELSE "c_raised"
          /\ error' = IF outcome = "written" THEN error
                      ELSE IF outcome = "not opened" THEN "IOError"
                      ELSE "TemplateError"
    /\ UNCHANGED <<cdash_upload_url, report_data, phases_encountered,
                   current_phase, cdash_phase, unit, lines, i, k, dir_exists,
                   open_file, upload_calls, puts, printed, response>>

Next ==
    \/ BeginReport
    \/ StartPackage
    \/ SegmentLine
    \/ FinishSegmentation
    \/ ProcessPhase
    \/ OpenReport
    \/ WriteSite
    \/ WriteBody
    \/ Upload
    \/ BeginConcretization
    \/ WriteUpdate

Spec == Init /\ [][Next]_vars

\* The reports on one package with a 'configure' and an 'install' phase.
SpecTwoPhase == InitTwoPhase /\ [][Next]_vars

\* ------------------------------------------------------------------------
\* Properties of segmentation
\* ------------------------------------------------------------------------

\* The line holds a phase marker: the test of line 127 succeeds.
is_marker(line) == phase_found(line) /\ phase_match(line)

\* The marker line names a phase of the mapping table.
is_mapped_marker(line) == is_marker(line) /\ in_map(match_group(line))

\* This step reads a line that holds no marker.
ReadsPlainLine ==
    /\ pc = "segment"
    /\ i < Len(lines)
    /\ i' = i + 1
    /\ ~is_marker(lines[i + 1])

\* This step appends to no phase's log buffer.
BuffersUnchanged ==
    \A p \in cdash_phases : report_data'[p].loglines = report_data[p].loglines

\* The last marker among the first n lines of the package names an unmapped
\* phase.
under_unmapped_marker(ls, n) ==
    \E m \in 1..n :
        /\ is_marker(ls[m])
        /\ ~is_mapped_marker(ls[m])
        /\ \A q \in (m + 1)..n : ~is_marker(ls[q])

\* C1: a line read after a marker naming an unmapped phase, before the next
\* marker, is appended to no coarse phase's log buffer.
C1_DroppedAfterUnmappedMarker ==
    [][(ReadsPlainLine /\ under_unmapped_marker(lines, i)) => BuffersUnchanged]_vars

\* C2: a line of a package read before the package's first marker line is
\* appended to no phase buffer, whatever phase an earlier package ended in.
C2_DroppedBeforeFirstMarker ==
    [][(ReadsPlainLine /\ \A m \in 1..i : ~is_marker(lines[m]))
          => BuffersUnchanged]_vars

\* The escaped lines of a sequence of captured lines, in order.
escaped_lines(ls) == [n \in 1..Len(ls) |-> xml_escape(ls[n])]

\* The position of the 'install' marker in the lines of a two-phase package.
install_position(ls) == CHOOSE m \in 1..Len(ls) : ls[m] = marker_line("install")

\* Every package was read.
SegmentationOver ==
    pc \in {"process", "open", "site", "body", "upload", "raised", "done"}

\* build_report was called.
InBuildReport == pc = "segment" \/ SegmentationOver

\* C3: for a package whose output is a 'configure' marker, N plain lines, an
\* 'install' marker and M plain lines, after segmentation the configure
\* buffer is one header then the N lines, escaped and in order, and the build
\* buffer is one header then the M lines, escaped and in order.
C3_TwoPhaseBuffers ==
    SegmentationOver =>
        LET m == install_position(lines)
        IN  /\ report_data["configure"].loglines =
                   <<header_line("configure", package_name(1))>>
                      \o escaped_lines(SubSeq(lines, 2, m - 1))
            /\ report_data["build"].loglines =
                   <<header_line("build", package_name(1))>>
                      \o escaped_lines(SubSeq(lines, m + 1, Len(lines)))

\* Two different plain lines under 'configure' and one under 'install' were
\* segmented.
C3_Witness ==
    /\ SegmentationOver
    /\ install_position(lines) = 4
    /\ lines[2] # lines[3]
    /\ Len(lines) = 5
    /\ Len(report_data["configure"].loglines) = 3
    /\ Len(report_data["build"].loglines) = 2

\* The lines of a captured text.
lines_of(text) == LET ls == splitlines(text) IN {ls[n] : n \in 1..Len(ls)}

\* The captured lines of every package of the report.
RawLines ==
    LET ps == all_packages(report_data.specs)
    IN  UNION {lines_of(ps[n].stdout) :
                  n \in {q \in 1..Len(ps) : "stdout" \in DOMAIN ps[q]}}

\* No captured line holds a phase marker.
NoMarkerInput == \A l \in RawLines : ~is_marker(l)

\* The coarse phases of a report.
CoarsePhases == cdash_phases \cup {"update"}

\* The phases whose log was computed.
processed_phases ==
    {p \in CoarsePhases \cap DOMAIN report_data : "log" \in DOMAIN report_data[p]}

\* C4: when no captured line holds a phase marker, every phase's log buffer
\* stays empty and "update" is the only phase processed, without failing.
C4_OnlyUpdateProcessed ==
    (InBuildReport /\ NoMarkerInput) =>
        /\ \A p \in cdash_phases : report_data[p].loglines = <<>>
        /\ processed_phases \subseteq {"update"}
        /\ error # "KeyError"
        /\ (pc \notin {"segment", "process"} => "update" \in processed_phases)

\* ------------------------------------------------------------------------
\* Properties of phase processing
\* ------------------------------------------------------------------------

\* The header lines segmentation can write.
HeaderLines ==
    LET ps == all_packages(report_data.specs)
    IN  {header_line(p, ps[n].name) : p \in cdash_phases, n \in 1..Len(ps)}

\* The captured lines, escaped once.
EscapedOnce == {xml_escape(l) : l \in RawLines}

\* The joined context lines an event can have, captured lines escaped once
\* and header lines as written.
ContextsEscapedOnce ==
    {xml_escape(join(c)) :
        c \in UNION {[1..m -> RawLines \cup HeaderLines] : m \in 0..context}}

\* The text fields of the event come from captured lines escaped once.
event_escaped_once(event) ==
    /\ event.text \in EscapedOnce \cup HeaderLines
    /\ event.pre_context \in ContextsEscapedOnce
    /\ event.post_context \in ContextsEscapedOnce

\* C5: every log line and every text field of a retained build-phase event
\* is a captured line with XML escaping applied exactly once.
C5_EscapedExactlyOnce ==
    InBuildReport =>
        /\ \A p \in cdash_phases :
              \A n \in 1..Len(report_data[p].loglines) :
                 report_data[p].loglines[n] \in EscapedOnce \cup HeaderLines
        /\ "errors" \in DOMAIN report_data["build"] =>
              /\ \A n \in 1..Len(report_data["build"].errors) :
                    event_escaped_once(report_data["build"].errors[n])
              /\ \A n \in 1..Len(report_data["build"].warnings) :
                    event_escaped_once(report_data["build"].warnings[n])

\* C6: once the configure phase is processed, its status is 1 exactly when
\* the extractor returned an error for its log lines.
C6_ConfigureStatus ==
    (InBuildReport /\ "configure" \in processed_phases) =>
        (report_data["configure"].status = 1
            <=> Len(parse_log_events(report_data["configure"].loglines).errors) > 0)

\* The configure phase was processed with an error and a warning in its log.
C6_Witness ==
    /\ InBuildReport
    /\ "configure" \in processed_phases
    /\ report_data["configure"].status = 1
    /\ Len(parse_log_events(report_data["configure"].loglines).errors) = 1
    /\ Len(parse_log_events(report_data["configure"].loglines).warnings) = 1

\* The file holds the site section and the section of its phase.
complete_file(name) ==
    /\ name \in DOMAIN files
    /\ Len(files[name]) = 2
    /\ files[name][1].template = "Site.xml"
    /\ files[name][2].template = name

\* C7: after a rendering failure no file of the report directory holds only
\* part of a document.
C7_NoPartialFile ==
    (pc = "raised" /\ error = "TemplateError") =>
        \A name \in DOMAIN files : complete_file(name)

\* C8: "update" joins the phases to process when segmentation is over, once
\* and last, after every coarse phase the output referenced.
C8_UpdateOnceAndLast ==
    /\ ~SegmentationOver =>
          \A n \in 1..Len(phases_encountered) : phases_encountered[n] # "update"
    /\ SegmentationOver =>
          /\ Len(phases_encountered) >= 1
          /\ phases_encountered[Len(phases_encountered)] = "update"
          /\ \A n \in 1..(Len(phases_encountered) - 1) :
                phases_encountered[n] \in cdash_phases
          /\ \A l \in RawLines :
                is_mapped_marker(l) =>
                    \E n \in 1..(Len(phases_encountered) - 1) :
                        phases_encountered[n] =
                            map_phases_to_cdash[match_group(l)[1]]

\* Both coarse phases were encountered before "update" was added.
C8_Witness ==
    /\ SegmentationOver
    /\ Len(phases_encountered) = 3
    /\ phases_encountered[3] = "update"

\* C9: every phase of the list of phases to process has a record in the
\* report model, so that processing it finds its log buffer.
C9_EveryPhaseHasRecord ==
    SegmentationOver =>
        /\ \A n \in 1..Len(phases_encountered) :
              /\ phases_encountered[n] \in DOMAIN report_data
              /\ "loglines" \in DOMAIN report_data[phases_encountered[n]]
        /\ error # "KeyError"

\* The report names of the phases before position n, in order.
reports_before(n) == [m \in 1..(n - 1) |-> report_name(phases_encountered[m])]

\* C10: every package is segmented before any phase is processed; the file
\* of a phase is opened only when the files of all earlier phases are
\* written, closed and uploaded; an upload starts on a closed file.
C10_StrictlySequential ==
    /\ pc \in {"idle", "segment"} =>
          /\ DOMAIN files = {}
          /\ upload_calls = <<>>
          /\ open_file = ""
          /\ (pc = "segment" => processed_phases = {})
    /\ SegmentationOver =>
          /\ unit = Len(all_packages(report_data.specs))
          /\ i = Len(lines)
    /\ pc \in {"open", "site", "body", "upload"} =>
          /\ upload_calls = reports_before(k)
          /\ \A m \in 1..(k - 1) : complete_file(report_name(phases_encountered[m]))
          /\ \A m \in (k + 1)..Len(phases_encountered) :
                report_name(phases_encountered[m]) \notin DOMAIN files
    /\ open_file # "" =>
          /\ pc \in {"site", "body"}
          /\ open_file = report_name(phases_encountered[k])
    /\ pc = "upload" =>
          /\ open_file = ""
          /\ complete_file(report_name(phases_encountered[k]))

\* The second phase's file is open after the first phase's upload.
C10_Witness ==
    /\ pc = "site"
    /\ k = 2
    /\ open_file = "Build.xml"
    /\ upload_calls = <<"Configure.xml">>
    /\ Len(puts) = 1

\* ------------------------------------------------------------------------
\* Properties of failures and of upload
\* ------------------------------------------------------------------------

\* C11: when writing or uploading the report of the phase at position k
\* fails, build_report is left at once: nothing more is done, no file exists
\* and no upload was attempted for a later phase, and no file was PUT more
\* often than upload was called with it, which is once.
C11_FailurePropagates ==
    /\ pc = "raised" =>
          /\ ~ENABLED Next
          /\ error # ""
          /\ \A m \in (k + 1)..Len(phases_encountered) :
                /\ report_name(phases_encountered[m]) \notin DOMAIN files
                /\ \A n \in 1..Len(upload_calls) :
                      upload_calls[n] # report_name(phases_encountered[m])
          /\ error = "URLError" => upload_calls = reports_before(k + 1)
          /\ error # "URLError" => upload_calls = reports_before(k)
    /\ InBuildReport =>
          /\ Len(puts) <= Len(upload_calls)
          /\ \A m, n \in 1..Len(upload_calls) :
                upload_calls[m] = upload_calls[n] => m = n

\* The PUT of the first of three phases failed.
C11_Witness ==
    /\ pc = "raised"
    /\ error = "URLError"
    /\ k = 1
    /\ Len(phases_encountered) = 3
    /\ Len(puts) = 1

\* C12: without an upload URL no request is built or sent, no answer is
\* read, no summary link is printed and no upload raises; build_report goes
\* on, and every report upload was called with is completely written.
C12_NoUrlNoUpload ==
    cdash_upload_url = <<>> =>
        /\ puts = <<>>
        /\ printed = <<>>
        /\ response = None
        /\ error # "URLError"
        /\ SegmentationOver =>
              /\ upload_calls = reports_before(k)
              /\ \A n \in 1..Len(upload_calls) : complete_file(upload_calls[n])

\* Without an upload URL the reports of two phases were written in turn.
C12_Witness ==
    /\ cdash_upload_url = <<>>
    /\ upload_calls = <<"Configure.xml", "Build.xml">>
    /\ pc = "process"

\* The numeric build ids that a response body reports.
reported_build_ids(body) ==
    {body[p + 1] : p \in {q \in 1..(Len(body) - 2) :
                             /\ body[q] = "<buildId>"
                             /\ body[q + 1] \in Numbers
                             /\ body[q + 2] = "</buildId>"}}

\* The upload URL with everything from "submit.php" on replaced by the
\* summary page of a build.
summary_page(url, buildId) ==
    LET p == CHOOSE q \in 1..Len(url) :
                 /\ url[q] = "submit.php"
                 /\ \A r \in 1..(q - 1) : url[r] # "submit.php"
    IN  SubSeq(url, 1, p - 1) \o <<"buildSummary.php?buildid=", buildId>>

\* C13: an upload whose PUT is answered prints the summary page of the build
\* when the answer reports a numeric build id, and prints nothing and raises
\* nothing otherwise.
C13_SummaryIffBuildId ==
    [][(/\ pc \in {"upload", "c_upload"}
        /\ cdash_upload_url # <<>>
        /\ pc' \notin {"raised", "c_raised"})
       => /\ response' \in Responses
          /\ error' = error
          /\ IF reported_build_ids(response') # {}
             THEN \E id \in reported_build_ids(response') :
                     printed' = Append(printed,
                                       summary_page(cdash_upload_url, id))
             ELSE printed' = printed]_vars

\* One answer reported a build id and the next one a malformed one.
C13_Witness ==
    /\ Len(puts) = 2
    /\ printed = <<<<"https://cdash/", "buildSummary.php?buildid=", "42">>>>
    /\ response = <<"<buildId>", "x", "</buildId>">>
    /\ pc = "process"

\* C14: a concretization report writes one file, Update.xml, which holds the
\* identity fields and the message, and then calls upload once, with that
\* file, when it is closed.
C14_OneFileThenOneUpload ==
    /\ pc \in {"c_write", "c_upload", "c_done", "c_raised"} =>
          /\ DOMAIN files \subseteq {"Update.xml"}
          /\ open_file = ""
          /\ Len(upload_calls) <= 1
          /\ Len(puts) <= Len(upload_calls)
    /\ pc = "c_write" => DOMAIN files = {} /\ upload_calls = <<>>
    /\ pc \in {"c_upload", "c_done"} =>
          /\ DOMAIN files = {"Update.xml"}
          /\ Len(files["Update.xml"]) = 1
          /\ LET written == files["Update.xml"][1]
             IN  /\ written.template = "Update.xml"
                 /\ written.data.buildname = self.buildname
                 /\ written.data.buildstamp = self.buildstamp
                 /\ written.data.site = self.site
                 /\ written.data.osname = self.osname
                 /\ written.data.install_command = self.install_command
                 /\ "msg" \in DOMAIN written.data
                 /\ written.data.msg \in Messages
    /\ pc = "c_upload" => upload_calls = <<>>
    /\ pc = "c_done" => upload_calls = <<"Update.xml">>

\* The concretization report was written and uploaded.
C14_Witness ==
    /\ pc = "c_done"
    /\ Len(puts) = 1
    /\ printed # <<>>

\* ------------------------------------------------------------------------
\* Properties of the phase records and of the encountered phases
\* ------------------------------------------------------------------------

\* C15: within one run of build_report the status of every phase starts at
\* 0, and once it is 1 no later step sets it back to 0.
C15_StatusMonotonic ==
    [][/\ (pc = "idle" /\ pc' = "segment") =>
              \A p \in cdash_phases : report_data'[p].status = 0
       /\ (InBuildReport /\ InBuildReport') =>
              \A p \in cdash_phases :
                  report_data[p].status = 1 => report_data'[p].status = 1]_vars

\* The failed 'configure' phase keeps its status while 'build' is written.
C15_Witness ==
    /\ pc = "body"
    /\ k = 2
    /\ report_data["configure"].status = 1
    /\ report_data["build"].status = 0

RECURSIVE lines_before(_, _)
\* The captured lines of the first n packages, in the order they are read.
lines_before(ps, n) ==
    IF n = 0 THEN <<>>
    ELSE lines_before(ps, n - 1)
            \o (IF "stdout" \in DOMAIN ps[n] THEN splitlines(ps[n].stdout)
                ELSE <<>>)

\* The lines read so far, over all packages.
read_so_far ==
    LET ps == all_packages(report_data.specs)
    IN  IF unit = 0 THEN <<>>
        ELSE lines_before(ps, unit - 1)
                \o (IF "stdout" \in DOMAIN ps[unit] THEN SubSeq(lines, 1, i)
                    ELSE <<>>)

\* The coarse phase a mapped marker line names.
coarse_phase(line) == map_phases_to_cdash[match_group(line)[1]]

RECURSIVE first_seen(_)
\* The coarse phases of the mapped markers among ls, each once, in the order
\* of their first marker.
first_seen(ls) ==
    IF ls = <<>> THEN <<>>
    ELSE LET before == first_seen(SubSeq(ls, 1, Len(ls) - 1))
             l == ls[Len(ls)]
         IN  IF /\ is_mapped_marker(l)
                /\ \A n \in 1..Len(before) : before[n] # coarse_phase(l)
             THEN Append(before, coarse_phase(l))
             ELSE before

\* C16: at every point of segmentation the encountered phases are the coarse
\* phases of the mapped markers read so far over all packages, each once, in
\* the order of their first marker.
C16_EncounteredInFirstSeenOrder ==
    pc = "segment" =>
        /\ phases_encountered = first_seen(read_so_far)
        /\ \A m, n \in 1..Len(phases_encountered) :
              phases_encountered[m] = phases_encountered[n] => m = n

\* Three mapped markers were read, the third repeats the phase of the first,
\* and 'build' was seen before 'configure'.
C16_Witness ==
    /\ pc = "segment"
    /\ Len(read_so_far) = 3
    /\ \A n \in 1..3 : is_mapped_marker(read_so_far[n])
    /\ coarse_phase(read_so_far[1]) = coarse_phase(read_so_far[3])
    /\ phases_encountered = <<"build", "configure">>

\* C17: taking a package without captured output raises nothing, reads no
\* line, and leaves every buffer and the encountered phases as they were.
C17_UnitWithoutOutputSkipped ==
    [][(/\ pc = "segment"
        /\ unit' = unit + 1
        /\ "stdout" \notin DOMAIN all_packages(report_data.specs)[unit + 1])
       => /\ pc' = "segment"
          /\ error' = ""
          /\ report_data' = report_data
          /\ phases_encountered' = phases_encountered
          /\ i' = Len(lines')]_vars

\* The second package has no captured output and was passed over while the
\* buffer of 'configure' held lines of the first.
C17_Witness ==
    /\ pc = "segment"
    /\ unit = 2
    /\ "stdout" \notin DOMAIN all_packages(report_data.specs)[2]
    /\ Len(report_data["configure"].loglines) >= 2
    /\ phases_encountered = <<"configure">>

\* The field of an event holds a value.
populated(field) == field # <<>> /\ \A n \in 1..Len(field) : field[n] # None

\* The source file and line number of the event are both empty or both
\* populated.
source_consistent(event) ==
    \/ event.source_file = <<>> /\ event.source_line_no = <<>>
    \/ populated(event.source_file) /\ populated(event.source_line_no)

\* C18: every retained event of the build phase has a source file and a
\* source line number that are both empty or both populated.
C18_SourceFieldsConsistent ==
    (InBuildReport /\ "errors" \in DOMAIN report_data["build"]) =>
        /\ \A n \in 1..Len(report_data["build"].errors) :
              source_consistent(report_data["build"].errors[n])
        /\ \A n \in 1..Len(report_data["build"].warnings) :
              source_consistent(report_data["build"].warnings[n])

\* The build phase retains an error without a source file and a warning
\* with one.
C18_Witness ==
    /\ InBuildReport
    /\ "errors" \in DOMAIN report_data["build"]
    /\ \E n \in 1..Len(report_data["build"].errors) :
          report_data["build"].errors[n].source_file = <<>>
    /\ \E n \in 1..Len(report_data["build"].warnings) :
          /\ report_data["build"].warnings[n].source_file = <<"f.c">>
          /\ report_data["build"].warnings[n].source_line_no = <<"3">>

\* C19: reading a line does what applying the pattern to the line alone
\* would do, without the substring test before it: a line the pattern
\* matches starts its phase or, unmapped, is dropped, and every other line,
\* one that holds the literal without a closing quote included, is appended
\* to the active phase's buffer or dropped.
C19_GatingChangesNothing ==
    [][(pc = "segment" /\ i' = i + 1) =>
         LET line == lines[i + 1]
             name == all_packages(report_data.specs)[unit].name
         IN  IF phase_match(line)
             THEN IF in_map(match_group(line))
                  THEN LET mapped == coarse_phase(line)
                       IN  /\ cdash_phase' = mapped
                           /\ phases_encountered' = first_seen(read_so_far')
                           /\ report_data' =
                                 [report_data EXCEPT ![mapped].loglines =
                                     Append(@, <<mapped, " output for ", name,
                                                 ":">>)]
                  ELSE UNCHANGED <<cdash_phase, phases_encountered, report_data>>
             ELSE /\ UNCHANGED <<cdash_phase, phases_encountered>>
                  /\ report_data' =
                        IF cdash_phase = "" THEN report_data
                        ELSE [report_data EXCEPT ![cdash_phase].loglines =
                                 Append(@, xml_escape(line))]]_vars

\* A line that holds the literal without a closing quote was appended to
\* the active phase's buffer.
C19_Witness ==
    /\ pc = "segment"
    /\ i >= 2
    /\ lines[i] = <<EP, "cmake">>
    /\ cdash_phase = "build"
    /\ LET buffer == report_data["build"].loglines
       IN  buffer # <<>> /\ buffer[Len(buffer)] = <<EP, "cmake">>

\* The line is the header of a package's output for the phase.
is_header(line, phase) ==
    /\ Len(line) = 4
    /\ line[1] = phase
    /\ line[2] = " output for "
    /\ line[4] = ":"

\* C20: at every point of segmentation, a coarse phase is among the
\* encountered phases exactly when its buffer holds a line, the first line
\* of such a buffer is a header, the buffer holds as many headers as markers
\* of the phase were read so far, and there is no buffer for "update".
C20_BuffersMatchEncountered ==
    pc = "segment" =>
        /\ "update" \notin DOMAIN report_data
        /\ \A p \in cdash_phases :
              LET buffer == report_data[p].loglines
                  read == read_so_far
              IN  /\ (\E n \in 1..Len(phases_encountered) :
                         phases_encountered[n] = p) <=> buffer # <<>>
                  /\ buffer # <<>> => is_header(buffer[1], p)
                  /\ Cardinality({n \in 1..Len(buffer) : is_header(buffer[n], p)})
                       = Cardinality({n \in 1..Len(read) :
                                         /\ is_mapped_marker(read[n])
                                         /\ coarse_phase(read[n]) = p})

\* The buffer of 'build' holds two headers and a line between them, and
\* 'configure' was not encountered.
C20_Witness ==
    /\ pc = "segment"
    /\ phases_encountered = <<"build">>
    /\ Len(report_data["build"].loglines) = 3
    /\ is_header(report_data["build"].loglines[1], "build")
    /\ ~is_header(report_data["build"].loglines[2], "build")
    /\ is_header(report_data["build"].loglines[3], "build")
    /\ report_data["configure"].loglines = <<>>

====
